---------------------------- MODULE Spec2Model ----------------------------
(***************************************************************************)
(* State-machine model of services/SceneGraph.ts: the scene-node registry, *)
(* attach with world-transform compensation, dirty propagation, lazy and   *)
(* bulk world-matrix resolution, over a structure-of-arrays entity store.  *)
(*                                                                         *)
(* Abstraction of the numeric part.  A 4x4 matrix is modelled on one axis  *)
(* as the affine map x |-> m*x + t, written [m |-> m, t |-> t]; a local    *)
(* transform is a position posX and a scale scaleX on that axis, rotation  *)
(* is kept at the identity.  Scale 0 gives a non-invertible matrix.        *)
(* The entity store and the math library are not part of the sources; they *)
(* are modelled from their interface contracts.                            *)
(***************************************************************************)
EXTENDS Integers, Sequences, FiniteSets, TLC

\* ------------------------------------------------------------------ bounds
MaxIds == 3
MaxXfIds == 2
MaxPos == 1
MaxMovable == 1

Ids == 1..MaxIds
\* The entities used where local transforms are edited (specification SpecXf).
XfIds == 1..MaxXfIds
Slots == 0..(MaxIds - 1)
PosRange == (0 - MaxPos)..MaxPos
\* Entities whose local transform the application edits directly.
Movable == 1..MaxMovable

\* ------------------------------------------------------- program constants
\* parentId: string | null
None == 0
\* SceneNode.index when the store does not know the entity
NoIndex == -1

VARIABLES nodes, rootIds, ecs, idToIndex, store, hung, last

vars == <<nodes, rootIds, ecs, idToIndex, store, hung, last>>

\* ------------------------------------------------------------ math library
Identity == [m |-> 1, t |-> 0]

Multiply(a, b) == [m |-> a.m * b.m, t |-> a.m * b.t + a.t]

\* Mat4Utils.invert returns false on a singular matrix.
Invertible(a) == a.m # 0

Invert(a) == [m |-> a.m, t |-> 0 - (a.m * a.t)]

Abs(x) == IF x < 0 THEN 0 - x ELSE x

\* getTranslation / getScaling of a matrix: the values attach writes back.
GetTranslation(mat) == mat.t

GetScaling(mat) == Abs(mat.m)

\* An optional matrix: << >> is null, <<mat>> a matrix.
Null == << >>

Some(mat) == <<mat>>

\* ------------------------------------------------------------ entity store
\* The slot the store's identity map gives an entity.
IndexOf(id) == id - 1

\* Local matrix of a slot, composed from its position and scale.
LocalMatrix(st, idx) == [m |-> st.scaleX[idx], t |-> st.posX[idx]]

\* store.updateWorldMatrix(idx, parentMat): world = parent * local, flag cleared.
UpdateWorldMatrix(st, idx, parentMat) ==
    LET local == LocalMatrix(st, idx)
        world == IF parentMat = Null THEN local ELSE Multiply(parentMat[1], local)
    IN  [st EXCEPT !.worldMatrix[idx] = world, !.transformDirty[idx] = 0]

InitStore ==
    [posX |-> [i \in Slots |-> 0],
     scaleX |-> [i \in Slots |-> 1],
     transformDirty |-> [i \in Slots |-> 0],
     worldMatrix |-> [i \in Slots |-> Identity]]

\* The model keeps every stored number within PosRange.
InRange(st) ==
    \A i \in Slots : st.posX[i] \in PosRange /\ st.worldMatrix[i].t \in PosRange

\* ------------------------------------------------------------------- nodes
SceneNode(index) == [index |-> index, parentId |-> None, childrenIds |-> << >>]

Registered(ns) == DOMAIN ns

\* The index lookup asking the store's identity map before the node's cached
\* index.
LookupIdxStoreFirst(ns, id) ==
    IF id \in DOMAIN idToIndex THEN idToIndex[id]
    ELSE IF id \in DOMAIN ns THEN ns[id].index
    ELSE NoIndex

\* `node ? node.index : this.ecs.idToIndex.get(id)`; undefined is treated
\* by every caller exactly as -1.
LookupIdx(ns, id) ==
    IF id \in DOMAIN ns THEN ns[id].index
    ELSE IF id \in DOMAIN idToIndex THEN idToIndex[id]
    ELSE NoIndex

\* childrenIds.filter(id => id !== x)
Without(seq, x) == SelectSeq(seq, LAMBDA y : y # x)


\* ------------------------------------------------- getWorldMatrix (lazy path)
\* An ancestor walk that has pushed more indices than there are nodes (plus
\* the start id) has met some id twice: its loop state is currentId alone,
\* so it never exits.
ChainFuel(ns) == Cardinality(DOMAIN ns) + 1

\* The `while (currentId)` loop: the chain of valid indices from entityId up.
RECURSIVE BuildChain(_, _, _, _)
BuildChain(ns, currentId, chain, fuel) ==
    IF currentId = None THEN [chain |-> chain, hung |-> FALSE]
    ELSE LET currentIdx == LookupIdx(ns, currentId)
         IN  IF currentIdx = NoIndex THEN [chain |-> chain, hung |-> FALSE]
             ELSE IF fuel = 0 THEN [chain |-> chain, hung |-> TRUE]
             ELSE BuildChain(ns,
                             IF currentId \in DOMAIN ns
                                 THEN ns[currentId].parentId ELSE None,
                             Append(chain, currentIdx),
                             fuel - 1)

\* The root -> leaf loop never handing the resolved matrix on: `parentMat`
\* stays null.
RECURSIVE ResolveChainNoParent(_, _, _, _)
ResolveChainNoParent(st, chain, i, parentMat) ==
    IF i = 0 THEN st
    ELSE LET chainIdx == chain[i]
             st2 == IF st.transformDirty[chainIdx] = 1
                        THEN UpdateWorldMatrix(st, chainIdx, Null)
                        ELSE st
         IN  ResolveChainNoParent(st2, chain, i - 1, Null)

\* The root -> leaf loop: recompute the dirty members, trust the clean ones.
RECURSIVE ResolveChain(_, _, _, _)
ResolveChain(st, chain, i, parentMat) ==
    IF i = 0 THEN st
    ELSE LET chainIdx == chain[i]
             st2 == IF st.transformDirty[chainIdx] = 1
                        THEN UpdateWorldMatrix(st, chainIdx, parentMat)
                        ELSE st
         IN  ResolveChain(st2, chain, i - 1, Some(st2.worldMatrix[chainIdx]))

\* getWorldMatrix without its `if (!this.ecs) return null` guard.
GetWorldMatrixNoEcsCheck(ns, st, entityId) ==
    LET idx == LookupIdx(ns, entityId)
    IN  IF idx = NoIndex THEN [ret |-> Null, store |-> st, hung |-> FALSE]
        ELSE LET w == BuildChain(ns, entityId, << >>, ChainFuel(ns))
             IN  IF w.hung THEN [ret |-> Null, store |-> st, hung |-> TRUE]
                 ELSE LET st2 == ResolveChain(st, w.chain, Len(w.chain), Null)
                      IN  [ret |-> Some(st2.worldMatrix[idx]),
                           store |-> st2, hung |-> FALSE]

\* getWorldMatrix(entityId) on nodes ns and store st:
\* the value returned, the store afterwards, and whether the walk diverges.
GetWorldMatrix(ns, st, entityId) ==
    IF ~ecs THEN [ret |-> Null, store |-> st, hung |-> FALSE]
    ELSE LET idx == LookupIdx(ns, entityId)
         IN  IF idx = NoIndex THEN [ret |-> Null, store |-> st, hung |-> FALSE]
             ELSE LET w == BuildChain(ns, entityId, << >>, ChainFuel(ns))
                  IN  IF w.hung THEN [ret |-> Null, store |-> st, hung |-> TRUE]
                      ELSE LET st2 == ResolveChain(st, w.chain, Len(w.chain), Null)
                           IN  [ret |-> Some(st2.worldMatrix[idx]),
                                store |-> st2, hung |-> FALSE]

\* getWorldPosition: the translation of the world matrix, or the origin.
GetWorldPosition(ns, st, entityId) ==
    LET g == GetWorldMatrix(ns, st, entityId)
    IN  [g EXCEPT !.ret = IF g.ret = Null THEN 0 ELSE GetTranslation(g.ret[1])]

\* ----------------------------------------------------------------- setDirty
\* A stack walk over an acyclic child graph of n nodes pops at most one entry
\* per path from the start, fewer than 2^n; a walk that pops more is on a cycle.
StackFuel(ns) == 2 ^ (Cardinality(DOMAIN ns) + 1)

\* `for (const childId of currNode.childrenIds)`: mark each child that has a
\* cached index.
RECURSIVE MarkChildren(_, _, _, _)
MarkChildren(ns, st, children, k) ==
    IF k > Len(children) THEN st
    ELSE LET cIdx == LookupIdx(ns, children[k])
         IN  MarkChildren(ns,
                          IF cIdx # NoIndex
                              THEN [st EXCEPT !.transformDirty[cIdx] = 1] ELSE st,
                          children, k + 1)

\* The loop of setDirty without its `stack.push(childId)`.
DirtyWalkNoPush(ns, st, stack, fuel) ==
    LET currId == stack[Len(stack)]
    IN  [store |-> IF currId \in DOMAIN ns
                       THEN MarkChildren(ns, st, ns[currId].childrenIds, 1)
                       ELSE st,
         hung |-> FALSE]

\* The `while (stack.length > 0)` loop of setDirty.
RECURSIVE DirtyWalk(_, _, _, _)
DirtyWalk(ns, st, stack, fuel) ==
    IF stack = << >> THEN [store |-> st, hung |-> FALSE]
    ELSE IF fuel = 0 THEN [store |-> st, hung |-> TRUE]
    ELSE LET currId == stack[Len(stack)]
             rest == SubSeq(stack, 1, Len(stack) - 1)
         IN  IF currId \in DOMAIN ns
                 THEN DirtyWalk(ns,
                                MarkChildren(ns, st, ns[currId].childrenIds, 1),
                                rest \o ns[currId].childrenIds,
                                fuel - 1)
                 ELSE DirtyWalk(ns, st, rest, fuel - 1)

\* setDirty without its `if (!this.ecs) return` guard.
SetDirtyNoEcsCheck(ns, st, entityId) ==
    LET cached == LookupIdx(ns, entityId)
        idx == IF cached = NoIndex /\ entityId \in DOMAIN idToIndex
                   THEN idToIndex[entityId] ELSE cached
        st1 == IF idx # NoIndex
                   THEN [st EXCEPT !.transformDirty[idx] = 1] ELSE st
    IN  DirtyWalk(ns, st1, <<entityId>>, StackFuel(ns))

\* setDirty(entityId): the store afterwards, and whether the walk diverges.
SetDirty(ns, st, entityId) ==
    IF ~ecs THEN [store |-> st, hung |-> FALSE]
    ELSE LET cached == LookupIdx(ns, entityId)
             idx == IF cached = NoIndex /\ entityId \in DOMAIN idToIndex
                        THEN idToIndex[entityId] ELSE cached
             st1 == IF idx # NoIndex
                        THEN [st EXCEPT !.transformDirty[idx] = 1] ELSE st
         IN  DirtyWalk(ns, st1, <<entityId>>, StackFuel(ns))

\* ------------------------------------------------------------------- update
\* this.rootIds.forEach(...): the roots as a sequence.  The trees of distinct
\* roots share no node and no slot, so the order among roots does not change
\* the result; ascending order is used.
RECURSIVE SetToSeq(_)
SetToSeq(S) ==
    IF S = {} THEN << >>
    ELSE LET x == CHOOSE y \in S : \A z \in S : y <= z
         IN  <<x>> \o SetToSeq(S \ {x})

\* The push loop of update stopping at `i > 0`: the first child is never pushed.
RECURSIVE PushChildrenSkipsFirst(_, _, _, _)
PushChildrenSkipsFirst(children, i, mat, pDirty) ==
    IF i <= 1 THEN << >>
    ELSE <<[id |-> children[i], mat |-> mat, pDirty |-> pDirty]>>
             \o PushChildrenSkipsFirst(children, i - 1, mat, pDirty)

\* The push loop of update running forward, `for (i = 0; i < length; i++)`:
\* the last child is then popped first.
RECURSIVE PushChildrenForward(_, _, _, _)
PushChildrenForward(children, i, mat, pDirty) ==
    IF i = 0 THEN << >>
    ELSE PushChildrenForward(children, i - 1, mat, pDirty)
             \o <<[id |-> children[i], mat |-> mat, pDirty |-> pDirty]>>

\* Stack items for the children of a node, pushed last child first.
RECURSIVE PushChildren(_, _, _, _)
PushChildren(children, i, mat, pDirty) ==
    IF i = 0 THEN << >>
    ELSE <<[id |-> children[i], mat |-> mat, pDirty |-> pDirty]>>
             \o PushChildren(children, i - 1, mat, pDirty)

\* The `while (stack.length > 0)` loop of update.  visited lists the entities
\* processed (valid index), recomputed those passed to updateWorldMatrix.
RECURSIVE UpdateWalk(_, _, _, _, _, _)
UpdateWalk(ns, st, stack, fuel, visited, recomputed) ==
    IF stack = << >>
        THEN [store |-> st, hung |-> FALSE, visited |-> visited,
              recomputed |-> recomputed]
    ELSE IF fuel = 0
        THEN [store |-> st, hung |-> TRUE, visited |-> visited,
              recomputed |-> recomputed]
    ELSE LET item == stack[Len(stack)]
             rest == SubSeq(stack, 1, Len(stack) - 1)
             idx == IF item.id \in DOMAIN ns THEN ns[item.id].index ELSE NoIndex
         IN  IF idx = NoIndex
                 THEN UpdateWalk(ns, st, rest, fuel - 1, visited, recomputed)
             ELSE LET isDirty == st.transformDirty[idx] = 1 \/ item.pDirty
                      st2 == IF isDirty THEN UpdateWorldMatrix(st, idx, item.mat)
                             ELSE st
                      children == ns[item.id].childrenIds
                  IN  UpdateWalk(ns, st2,
                                 rest \o PushChildren(children, Len(children),
                                                      Some(st2.worldMatrix[idx]),
                                                      isDirty),
                                 fuel - 1,
                                 Append(visited, item.id),
                                 IF isDirty THEN Append(recomputed, item.id)
                                 ELSE recomputed)

RootItems(roots) ==
    LET s == SetToSeq(roots)
    IN  [k \in 1..Len(s) |-> [id |-> s[k], mat |-> Null, pDirty |-> FALSE]]

\* update().  A child's item carries a view of its parent's world-matrix slot,
\* which nothing writes between the push and the pop.
Update(ns, roots, st) ==
    IF ~ecs THEN [store |-> st, hung |-> FALSE, visited |-> << >>,
                  recomputed |-> << >>]
    ELSE UpdateWalk(ns, st, RootItems(roots), StackFuel(ns), << >>, << >>)


\* ----------------------------------------------------------------- registry
\* registerEntity without its `if (!this.nodes.has(entityId))` test.
RegisterEntityNoHasCheck(ns, roots, entityId) ==
    LET idx == IF ecs /\ entityId \in DOMAIN idToIndex
                   THEN idToIndex[entityId] ELSE NoIndex
    IN  [nodes |-> [x \in DOMAIN ns \cup {entityId} |->
                       IF x = entityId THEN SceneNode(idx) ELSE ns[x]],
         rootIds |-> roots \cup {entityId}]

\* registerEntity(entityId): the nodes and roots afterwards.
RegisterEntity(ns, roots, entityId) ==
    IF entityId \notin DOMAIN ns
        THEN LET idx == IF ecs /\ entityId \in DOMAIN idToIndex
                            THEN idToIndex[entityId] ELSE NoIndex
             IN  [nodes |-> [x \in DOMAIN ns \cup {entityId} |->
                                IF x = entityId THEN SceneNode(idx) ELSE ns[x]],
                  rootIds |-> roots \cup {entityId}]
        ELSE [nodes |-> ns, rootIds |-> roots]

SeqRange(seq) == {seq[k] : k \in 1..Len(seq)}

\* unregisterEntity that drops the node without detaching its children.
UnregisterEntityKeepsChildLinks(ns, roots, entityId) ==
    IF entityId \notin DOMAIN ns THEN [nodes |-> ns, rootIds |-> roots]
    ELSE LET p == ns[entityId].parentId
             ns2 == IF p # None /\ p \in DOMAIN ns
                        THEN [ns EXCEPT ![p].childrenIds = Without(@, entityId)]
                        ELSE ns
         IN  [nodes |-> [x \in DOMAIN ns2 \ {entityId} |-> ns2[x]],
              rootIds |-> roots \ {entityId}]

\* unregisterEntity clearing the children's parentId without
\* `this.rootIds.add(childId)`.
UnregisterEntityNoRootAdd(ns, roots, entityId) ==
    IF entityId \notin DOMAIN ns THEN [nodes |-> ns, rootIds |-> roots]
    ELSE LET kids == SeqRange(ns[entityId].childrenIds) \cap DOMAIN ns
             ns1 == [x \in DOMAIN ns |->
                        IF x \in kids THEN [ns[x] EXCEPT !.parentId = None]
                        ELSE ns[x]]
             p == ns1[entityId].parentId
             ns2 == IF p # None /\ p \in DOMAIN ns1
                        THEN [ns1 EXCEPT ![p].childrenIds = Without(@, entityId)]
                        ELSE ns1
         IN  [nodes |-> [x \in DOMAIN ns2 \ {entityId} |-> ns2[x]],
              rootIds |-> roots \ {entityId}]

\* unregisterEntity(entityId): children become roots, the node leaves its
\* parent's child list, nodes and rootIds.
UnregisterEntity(ns, roots, entityId) ==
    IF entityId \notin DOMAIN ns THEN [nodes |-> ns, rootIds |-> roots]
    ELSE LET kids == SeqRange(ns[entityId].childrenIds) \cap DOMAIN ns
             ns1 == [x \in DOMAIN ns |->
                        IF x \in kids THEN [ns[x] EXCEPT !.parentId = None]
                        ELSE ns[x]]
             roots1 == roots \cup kids
             p == ns1[entityId].parentId
             ns2 == IF p # None /\ p \in DOMAIN ns1
                        THEN [ns1 EXCEPT ![p].childrenIds = Without(@, entityId)]
                        ELSE ns1
         IN  [nodes |-> [x \in DOMAIN ns2 \ {entityId} |-> ns2[x]],
              rootIds |-> roots1 \ {entityId}]

\* setContext(ecs): every node's cached index is read again from the map.
SetContext(ns) ==
    [x \in DOMAIN ns |->
        [ns[x] EXCEPT !.index = IF x \in DOMAIN idToIndex
                                    THEN idToIndex[x] ELSE NoIndex]]

\* ------------------------------------------------------------------- attach
\* Relink whose fallback for an unknown parent forgets rootIds.add(childId).
RelinkFallbackForgetsRoot(ns, roots, childId, parentId) ==
    LET old == ns[childId].parentId
        ns1 == IF old # None /\ old \in DOMAIN ns
                   THEN [ns EXCEPT ![old].childrenIds = Without(@, childId)]
                   ELSE ns
        roots1 == IF old # None THEN roots ELSE roots \ {childId}
    IN  IF parentId # None /\ parentId \in DOMAIN ns1
            THEN [nodes |-> [[ns1 EXCEPT ![childId].parentId = parentId]
                                EXCEPT ![parentId].childrenIds = Append(@, childId)],
                  rootIds |-> roots1 \ {childId}]
        ELSE IF parentId # None
            THEN [nodes |-> [ns1 EXCEPT ![childId].parentId = None],
                  rootIds |-> roots1]
        ELSE [nodes |-> [ns1 EXCEPT ![childId].parentId = None],
              rootIds |-> roots1 \cup {childId}]

\* Relink that links the child to a parent id it did not find among the nodes.
RelinkKeepsUnknownParent(ns, roots, childId, parentId) ==
    LET old == ns[childId].parentId
        ns1 == IF old # None /\ old \in DOMAIN ns
                   THEN [ns EXCEPT ![old].childrenIds = Without(@, childId)]
                   ELSE ns
        roots1 == IF old # None THEN roots ELSE roots \ {childId}
    IN  IF parentId # None /\ parentId \in DOMAIN ns1
            THEN [nodes |-> [[ns1 EXCEPT ![childId].parentId = parentId]
                                EXCEPT ![parentId].childrenIds = Append(@, childId)],
                  rootIds |-> roots1 \ {childId}]
            ELSE [nodes |-> [ns1 EXCEPT ![childId].parentId = parentId],
                  rootIds |-> IF parentId = None THEN roots1 \cup {childId}
                              ELSE roots1]

\* Relink that leaves the child in its old parent's child list.
RelinkKeepsOldEntry(ns, roots, childId, parentId) ==
    LET old == ns[childId].parentId
        roots1 == IF old # None THEN roots ELSE roots \ {childId}
    IN  IF parentId # None /\ parentId \in DOMAIN ns
            THEN [nodes |-> [[ns EXCEPT ![childId].parentId = parentId]
                                EXCEPT ![parentId].childrenIds = Append(@, childId)],
                  rootIds |-> roots1 \ {childId}]
            ELSE [nodes |-> [ns EXCEPT ![childId].parentId = None],
                  rootIds |-> roots1 \cup {childId}]

\* Step 2 of attach: unlink from the old parent (or rootIds), link to the new.
Relink(ns, roots, childId, parentId) ==
    LET old == ns[childId].parentId
        ns1 == IF old # None /\ old \in DOMAIN ns
                   THEN [ns EXCEPT ![old].childrenIds = Without(@, childId)]
                   ELSE ns
        roots1 == IF old # None THEN roots ELSE roots \ {childId}
    IN  IF parentId # None /\ parentId \in DOMAIN ns1
            THEN [nodes |-> [[ns1 EXCEPT ![childId].parentId = parentId]
                                EXCEPT ![parentId].childrenIds = Append(@, childId)],
                  rootIds |-> roots1 \ {childId}]
            ELSE [nodes |-> [ns1 EXCEPT ![childId].parentId = None],
                  rootIds |-> roots1 \cup {childId}]

\* Step 3 of attach composing with the parent's world instead of its inverse.
NewLocalMatNoInverse(parentWorld, tempWorld) ==
    IF parentWorld # Null /\ Invertible(parentWorld[1])
        THEN Multiply(parentWorld[1], tempWorld)
        ELSE tempWorld

\* Step 3 of attach: NewLocal = Inv(NewParentWorld) * OldWorld, or OldWorld
\* when there is no parent matrix or it does not invert.
NewLocalMat(parentWorld, tempWorld) ==
    IF parentWorld # Null /\ Invertible(parentWorld[1])
        THEN Multiply(Invert(parentWorld[1]), tempWorld)
        ELSE tempWorld

\* Step 4 of attach: decompose and write position and scale at the child's slot.
WriteLocal(st, idx, newLocalMat) ==
    IF idx # NoIndex
        THEN [st EXCEPT !.posX[idx] = GetTranslation(newLocalMat),
                        !.scaleX[idx] = GetScaling(newLocalMat)]
        ELSE st

\* attach whose step 5 calls setDirty on the parent argument instead of the
\* child.
AttachDirtiesParent(ns, roots, st, childId, parentId) ==
    IF childId \notin DOMAIN ns \/ ~ecs
        THEN [nodes |-> ns, rootIds |-> roots, store |-> st, hung |-> FALSE]
    ELSE
    LET g1 == GetWorldMatrix(ns, st, childId)
        tempWorld == IF g1.ret # Null THEN g1.ret[1] ELSE Identity
        topo == Relink(ns, roots, childId, parentId)
        g2 == IF parentId # None
                  THEN GetWorldMatrix(topo.nodes, g1.store, parentId)
                  ELSE [ret |-> Null, store |-> g1.store, hung |-> FALSE]
        st3 == WriteLocal(g2.store, topo.nodes[childId].index,
                          NewLocalMat(g2.ret, tempWorld))
        d == SetDirty(topo.nodes, st3, IF parentId # None THEN parentId
                                       ELSE childId)
    IN  IF g1.hung
            THEN [nodes |-> ns, rootIds |-> roots, store |-> st, hung |-> TRUE]
        ELSE IF g2.hung
            THEN [nodes |-> topo.nodes, rootIds |-> topo.rootIds,
                  store |-> g1.store, hung |-> TRUE]
        ELSE [nodes |-> topo.nodes, rootIds |-> topo.rootIds,
              store |-> d.store, hung |-> d.hung]

\* attach(childId, parentId): nodes, rootIds and store afterwards, and whether
\* a walk diverges (then the fields are those at the point the call stops
\* making progress).
Attach(ns, roots, st, childId, parentId) ==
    IF childId \notin DOMAIN ns \/ ~ecs
        THEN [nodes |-> ns, rootIds |-> roots, store |-> st, hung |-> FALSE]
    ELSE
    LET g1 == GetWorldMatrix(ns, st, childId)
        tempWorld == IF g1.ret # Null THEN g1.ret[1] ELSE Identity
        topo == Relink(ns, roots, childId, parentId)
        g2 == IF parentId # None
                  THEN GetWorldMatrix(topo.nodes, g1.store, parentId)
                  ELSE [ret |-> Null, store |-> g1.store, hung |-> FALSE]
        st3 == WriteLocal(g2.store, topo.nodes[childId].index,
                          NewLocalMat(g2.ret, tempWorld))
        d == SetDirty(topo.nodes, st3, childId)
    IN  IF g1.hung
            THEN [nodes |-> ns, rootIds |-> roots, store |-> st, hung |-> TRUE]
        ELSE IF g2.hung
            THEN [nodes |-> topo.nodes, rootIds |-> topo.rootIds,
                  store |-> g1.store, hung |-> TRUE]
        ELSE [nodes |-> topo.nodes, rootIds |-> topo.rootIds,
              store |-> d.store, hung |-> d.hung]

\* ------------------------------------------------------------------ actions
Call(op, a, b, ret) == [op |-> op, a |-> a, b |-> b, ret |-> ret]

Init ==
    /\ nodes = << >>
    /\ rootIds = {}
    /\ ecs = FALSE
    /\ idToIndex = << >>
    /\ store = InitStore
    /\ hung = FALSE
    /\ last = Call("init", None, None, Null)

registerEntity(entityId) ==
    /\ ~hung
    /\ \E r \in {RegisterEntity(nodes, rootIds, entityId)} :
           nodes' = r.nodes /\ rootIds' = r.rootIds
    /\ last' = Call("registerEntity", entityId, None, Null)
    /\ UNCHANGED <<ecs, idToIndex, store, hung>>

\* The call record of unregisterEntity keeps the links the node had when the
\* call was made: its parentId in b, its childrenIds in ret.
unregisterEntity(entityId) ==
    /\ ~hung
    /\ \E r \in {UnregisterEntity(nodes, rootIds, entityId)} :
           nodes' = r.nodes /\ rootIds' = r.rootIds
    /\ last' = IF entityId \in DOMAIN nodes
                   THEN Call("unregisterEntity", entityId,
                             nodes[entityId].parentId, nodes[entityId].childrenIds)
                   ELSE Call("unregisterEntity", entityId, None, Null)
    /\ UNCHANGED <<ecs, idToIndex, store, hung>>

setContext ==
    /\ ~hung
    /\ ecs' = TRUE
    /\ nodes' = SetContext(nodes)
    /\ last' = Call("setContext", None, None, Null)
    /\ UNCHANGED <<rootIds, idToIndex, store, hung>>

attach(childId, parentId) ==
    /\ ~hung
    /\ \E r \in {Attach(nodes, rootIds, store, childId, parentId)} :
           /\ InRange(r.store)
           /\ nodes' = r.nodes
           /\ rootIds' = r.rootIds
           /\ store' = r.store
           /\ hung' = r.hung
    /\ last' = Call("attach", childId, parentId, Null)
    /\ UNCHANGED <<ecs, idToIndex>>

setDirty(entityId) ==
    /\ ~hung
    /\ \E r \in {SetDirty(nodes, store, entityId)} :
           store' = r.store /\ hung' = r.hung
    /\ last' = Call("setDirty", entityId, None, Null)
    /\ UNCHANGED <<nodes, rootIds, ecs, idToIndex>>

getWorldMatrix(entityId) ==
    /\ ~hung
    /\ \E r \in {GetWorldMatrix(nodes, store, entityId)} :
           /\ InRange(r.store)
           /\ store' = r.store
           /\ hung' = r.hung
           /\ last' = Call("getWorldMatrix", entityId, None, r.ret)
    /\ UNCHANGED <<nodes, rootIds, ecs, idToIndex>>

getWorldPosition(entityId) ==
    /\ ~hung
    /\ \E r \in {GetWorldPosition(nodes, store, entityId)} :
           /\ InRange(r.store)
           /\ store' = r.store
           /\ hung' = r.hung
           /\ last' = Call("getWorldPosition", entityId, None, <<r.ret>>)
    /\ UNCHANGED <<nodes, rootIds, ecs, idToIndex>>

\* The call record of update keeps, in ret, the entities in the order the
\* call processed them.
update ==
    /\ ~hung
    /\ \E r \in {Update(nodes, rootIds, store)} :
           /\ InRange(r.store)
           /\ store' = r.store
           /\ hung' = r.hung
           /\ last' = Call("update", None, None, r.visited)
    /\ UNCHANGED <<nodes, rootIds, ecs, idToIndex>>

\* The entity system creates an entity: its identity map gains the id. The
\* flag a new slot starts with is the store's own choice.
EcsCreate(entityId, dirty) ==
    /\ ~hung
    /\ entityId \notin DOMAIN idToIndex
    /\ idToIndex' = [x \in DOMAIN idToIndex \cup {entityId} |-> IndexOf(x)]
    /\ store' = [store EXCEPT !.transformDirty[IndexOf(entityId)] = dirty]
    /\ last' = Call("ecsCreate", entityId, None, Null)
    /\ UNCHANGED <<nodes, rootIds, ecs, hung>>

\* The application edits an entity's local transform in the store.
SetLocal(entityId, pos, scale) ==
    /\ ~hung
    /\ entityId \in DOMAIN idToIndex
    /\ store' = [store EXCEPT !.posX[idToIndex[entityId]] = pos,
                              !.scaleX[idToIndex[entityId]] = scale]
    /\ store' # store
    /\ last' = Call("setLocal", entityId, None, Null)
    /\ UNCHANGED <<nodes, rootIds, ecs, idToIndex, hung>>

\* With the store bound, the application edits an entity's local transform
\* and reports the edit with setDirty(entityId), in one step.
EditLocal(entityId, pos, scale) ==
    /\ ~hung
    /\ ecs
    /\ entityId \in DOMAIN idToIndex
    /\ LET edited == [store EXCEPT !.posX[idToIndex[entityId]] = pos,
                                   !.scaleX[idToIndex[entityId]] = scale]
       IN  /\ edited # store
           /\ \E r \in {SetDirty(nodes, edited, entityId)} :
                  store' = r.store /\ hung' = r.hung
    /\ last' = Call("editLocal", entityId, None, Null)
    /\ UNCHANGED <<nodes, rootIds, ecs, idToIndex>>

\* Every public operation on every id, and the entity system creating
\* entities; local transforms stay as the store creates them.
Next ==
    \/ \E id \in Ids : registerEntity(id)
    \/ \E id \in Ids : unregisterEntity(id)
    \/ setContext
    \/ \E c \in Ids, p \in Ids \cup {None} : attach(c, p)
    \/ \E id \in Ids : setDirty(id)
    \/ \E id \in Ids : getWorldMatrix(id)
    \/ \E id \in Ids : getWorldPosition(id)
    \/ update
    \/ \E id \in Ids, d \in {0, 1} : EcsCreate(id, d)

Spec == Init /\ [][Next]_vars

\* The same operations on the entities of XfIds, with the application editing
\* local transforms.
NextXf ==
    \/ \E id \in XfIds : registerEntity(id)
    \/ \E id \in XfIds : unregisterEntity(id)
    \/ setContext
    \/ \E c \in XfIds, p \in XfIds \cup {None} : attach(c, p)
    \/ \E id \in XfIds : setDirty(id)
    \/ \E id \in XfIds : getWorldMatrix(id)
    \/ update
    \/ \E id \in XfIds, d \in {0, 1} : EcsCreate(id, d)
    \/ \E id \in Movable, pos \in PosRange, s \in {0, 1} : SetLocal(id, pos, s)

SpecXf == Init /\ [][NextXf]_vars

\* Topology changes and dirty marking only, then update: no direct world-matrix
\* query, and every edit of a local transform is reported with setDirty.
NextTopo ==
    \/ \E id \in XfIds : registerEntity(id)
    \/ \E id \in XfIds : unregisterEntity(id)
    \/ setContext
    \/ \E c \in XfIds, p \in XfIds \cup {None} : attach(c, p)
    \/ \E id \in XfIds : setDirty(id)
    \/ update
    \/ \E id \in XfIds, d \in {0, 1} : EcsCreate(id, d)
    \/ \E id \in Movable, pos \in PosRange, s \in {0, 1} : EditLocal(id, pos, s)

SpecTopo == Init /\ [][NextTopo]_vars

\* ------------------------------------------------------------- properties
Count(seq, x) == Cardinality({k \in 1..Len(seq) : seq[k] = x})

\* The ids met by following parentId from n for at most k steps.
RECURSIVE AncestorsWithin(_, _)
AncestorsWithin(n, k) ==
    IF k = 0 \/ n \notin DOMAIN nodes \/ nodes[n].parentId = None THEN {}
    ELSE {nodes[n].parentId} \cup AncestorsWithin(nodes[n].parentId, k - 1)

Ancestors(n) == AncestorsWithin(n, Cardinality(DOMAIN nodes))

\* The ids met by following childrenIds from n for at most k levels.
RECURSIVE DescendantsWithin(_, _)
DescendantsWithin(n, k) ==
    IF k = 0 \/ n \notin DOMAIN nodes THEN {}
    ELSE LET kids == SeqRange(nodes[n].childrenIds)
         IN  kids \cup UNION {DescendantsWithin(c, k - 1) : c \in kids}

Descendants(n) == DescendantsWithin(n, Cardinality(DOMAIN nodes))

\* C1: rootIds is exactly the set of registered nodes with no parent.
C1_RootsAreTheParentless ==
    rootIds = {n \in DOMAIN nodes : nodes[n].parentId = None}

\* A node was just made a root by attach while another node has a parent.
C1_Witness ==
    /\ last.op = "attach" /\ last.b = None /\ ~hung
    /\ last.a \in rootIds
    /\ \E n \in DOMAIN nodes : nodes[n].parentId # None
    /\ Cardinality(rootIds) = 2

\* C2: a node's parent is registered and lists the node exactly once.
C2_ParentListsChildOnce ==
    \A n \in DOMAIN nodes :
        nodes[n].parentId # None =>
            /\ nodes[n].parentId \in DOMAIN nodes
            /\ Count(nodes[nodes[n].parentId].childrenIds, n) = 1

\* attach has just put a second child under a parent.
C2_Witness ==
    /\ last.op = "attach" /\ last.b # None /\ ~hung
    /\ last.a \in DOMAIN nodes /\ nodes[last.a].parentId = last.b
    /\ Len(nodes[last.b].childrenIds) = 2

\* C3: the parent relation is acyclic: no node is its own transitive ancestor.
C3_ParentRelationAcyclic ==
    \A n \in DOMAIN nodes : n \notin Ancestors(n)

\* C4: every public operation terminates: no call is left spinning in one of
\* its walks.
C4_EveryCallReturns == ~hung

\* The entities reachable from a root through child links.
RootReach == rootIds \cup UNION {Descendants(r) : r \in rootIds}

\* e and every ancestor of e have a cached store index.
ValidPath(e) ==
    /\ nodes[e].index # NoIndex
    /\ \A a \in Ancestors(e) : nodes[a].index # NoIndex

\* C6 as stated: after update() with a store bound, every entity reachable
\* from a root has dirty flag 0, also below a node whose cached index is -1.
C6_UpdateClearsAllReachable ==
    (last.op = "update" /\ ecs /\ ~hung) =>
        \A e \in RootReach \cap DOMAIN nodes :
            nodes[e].index # NoIndex => store.transformDirty[nodes[e].index] = 0

\* C6 amended: after update() with a store bound, every entity reachable from
\* a root along nodes that all have a cached index has dirty flag 0.
C6_UpdateClearsValidPaths ==
    (last.op = "update" /\ ecs /\ ~hung) =>
        \A e \in RootReach \cap DOMAIN nodes :
            ValidPath(e) => store.transformDirty[nodes[e].index] = 0

\* update() has just resolved a parent and its child, both with an index,
\* while a third entity sits below a node without one.
C6_Witness ==
    /\ last.op = "update" /\ ecs /\ ~hung
    /\ \E p, c \in DOMAIN nodes :
           /\ nodes[c].parentId = p /\ p \in rootIds
           /\ nodes[p].index # NoIndex /\ nodes[c].index # NoIndex
    /\ \E q \in DOMAIN nodes : nodes[q].index = NoIndex

\* C8: right after setDirty(A) on a registered A with a store bound, A and
\* every transitive descendant of A that has a cached store index is dirty.
C8_SetDirtyMarksSubtree ==
    (last.op = "setDirty" /\ ecs /\ ~hung /\ last.a \in DOMAIN nodes) =>
        \A e \in ({last.a} \cup Descendants(last.a)) \cap DOMAIN nodes :
            nodes[e].index # NoIndex => store.transformDirty[nodes[e].index] = 1

\* setDirty(A) has just run on the top of a chain A -> B -> C with indices.
C8_Witness ==
    /\ last.op = "setDirty" /\ ecs /\ ~hung
    /\ \E b, c \in DOMAIN nodes :
           /\ last.a \in DOMAIN nodes
           /\ nodes[b].parentId = last.a /\ nodes[c].parentId = b
           /\ nodes[last.a].index # NoIndex
           /\ nodes[b].index # NoIndex /\ nodes[c].index # NoIndex

\* C9 as stated: getWorldMatrix(id) on an id that is not registered returns
\* none and changes no dirty flag and no world-matrix slot, whether or not
\* the store knows the id.
C9_UnregisteredQueryIsNone ==
    [][(last'.op = "getWorldMatrix" /\ last'.a \notin DOMAIN nodes) =>
           (last'.ret = Null /\ store' = store)]_vars

\* C9 amended: getWorldMatrix(id) on an id that is neither registered nor in
\* the bound store's identity map (or with no store bound) returns none and
\* changes no dirty flag and no world-matrix slot.
C9_UnknownQueryIsNone ==
    [][(/\ last'.op = "getWorldMatrix"
        /\ last'.a \notin DOMAIN nodes
        /\ (~ecs \/ last'.a \notin DOMAIN idToIndex)) =>
           (last'.ret = Null /\ store' = store)]_vars

\* getWorldMatrix has just returned none for an id unknown to the graph and
\* to the bound store, while another entity is registered and dirty.
C9_Witness ==
    /\ last.op = "getWorldMatrix" /\ last.ret = Null /\ ecs
    /\ last.a \notin DOMAIN nodes /\ last.a \notin DOMAIN idToIndex
    /\ \E n \in DOMAIN nodes :
           nodes[n].index # NoIndex /\ store.transformDirty[nodes[n].index] = 1

\* C10 as stated: setDirty(id) changes no dirty flag and nothing of the graph
\* when no store is bound or id is not registered, even if the store knows id.
C10_SetDirtyNoOpIfUnregistered ==
    [][(last'.op = "setDirty" /\ (~ecs \/ last'.a \notin DOMAIN nodes)) =>
           (store' = store /\ nodes' = nodes /\ rootIds' = rootIds)]_vars

\* C10 amended: setDirty(id) changes no dirty flag and nothing of the graph
\* when no store is bound, or when id is neither registered nor in the bound
\* store's identity map.
C10_SetDirtyNoOpIfUnknown ==
    [][(/\ last'.op = "setDirty"
        /\ (~ecs \/ (last'.a \notin DOMAIN nodes
                        /\ last'.a \notin DOMAIN idToIndex))) =>
           (store' = store /\ nodes' = nodes /\ rootIds' = rootIds)]_vars

\* setDirty has just run with no store bound on an id the store knows, and
\* that id's flag is still clear.
C10_Witness ==
    /\ last.op = "setDirty" /\ ~ecs
    /\ last.a \in DOMAIN idToIndex
    /\ store.transformDirty[idToIndex[last.a]] = 0

\* The parent argument p of attach is none, or a registered node whose world
\* matrix, where it resolves, is invertible.
ParentInvertible(p) ==
    \/ p = None
    \/ /\ p \in DOMAIN nodes
       /\ LET pw == GetWorldMatrix(nodes, store, p).ret
          IN  pw = Null \/ Invertible(pw[1])

\* C5: for a registered child and a parent argument (a node or none) with an
\* invertible world transform, getWorldPosition(child) right after
\* attach(child, parent) equals getWorldPosition(child) right before it.
C5_AttachPreservesWorldPosition ==
    [][(/\ last'.op = "attach" /\ ~hung' /\ ecs
        /\ last'.a \in DOMAIN nodes
        /\ ParentInvertible(last'.b)) =>
           GetWorldPosition(nodes', store', last'.a).ret
               = GetWorldPosition(nodes, store, last'.a).ret]_vars

\* The scenario on one axis: A (entity 1) at 1, B (entity 2) a root at 0;
\* attach(B, A) has left B's local position -1 and its world position 0.
C5_Witness ==
    /\ last.op = "attach" /\ last.a = 2 /\ last.b = 1 /\ ~hung
    /\ 1 \in DOMAIN nodes /\ 2 \in DOMAIN nodes
    /\ nodes[2].parentId = 1 /\ nodes[1].parentId = None
    /\ nodes[1].index # NoIndex /\ nodes[2].index # NoIndex
    /\ store.posX[nodes[1].index] = 1
    /\ store.worldMatrix[nodes[1].index] = [m |-> 1, t |-> 1]
    /\ store.posX[nodes[2].index] = -1
    /\ GetWorldPosition(nodes, store, 2).ret = 0

\* The orders in which the entities of S can be queried.
Orders(S) ==
    {f \in [1..Cardinality(S) -> S] : \A i, j \in DOMAIN f : f[i] = f[j] => i = j}

\* The store after getWorldMatrix on order[k], order[k+1], ...
RECURSIVE QueryAll(_, _, _)
QueryAll(st, order, k) ==
    IF k > Len(order) THEN st
    ELSE QueryAll(GetWorldMatrix(nodes, st, order[k]).store, order, k + 1)

\* C7: from the same topology, local transforms, dirty flags and world-matrix
\* buffer, every entity's world matrix is the same whether the graph is
\* resolved by one update() or by direct getWorldMatrix calls in any order.
C7_ResolutionPathsAgree ==
    (ecs /\ ~hung) =>
        \A order \in Orders(DOMAIN nodes) : \A e \in DOMAIN nodes :
            GetWorldMatrix(nodes, Update(nodes, rootIds, store).store, e).ret
                = GetWorldMatrix(nodes, QueryAll(store, order, 1), e).ret

\* C11: registerEntity(id) on an id that is already registered (root or child,
\* with or without children) leaves nodes and rootIds, hence the node's
\* parentId, childrenIds and cached index, unchanged; afterwards id is in
\* rootIds only if it has no parent.
C11_RegisterEntityIdempotent ==
    [][(last'.op = "registerEntity" /\ last'.a \in DOMAIN nodes) =>
           /\ nodes' = nodes
           /\ rootIds' = rootIds
           /\ (last'.a \in rootIds' => nodes'[last'.a].parentId = None)]_vars

\* registerEntity has just been called on a node that has a parent and a
\* child: only an earlier registration can have left it so.
C11_Witness ==
    /\ last.op = "registerEntity" /\ last.a \in DOMAIN nodes
    /\ nodes[last.a].parentId # None
    /\ nodes[last.a].childrenIds # << >>
    /\ last.a \notin rootIds

\* C12: after unregisterEntity(x) on a registered x, every former child of x
\* has parentId none and is in rootIds; x is absent from nodes, from rootIds
\* and from its former parent's childrenIds; every other link is unchanged.
C12_OrphanPromotion ==
    [][(last'.op = "unregisterEntity" /\ last'.a \in DOMAIN nodes) =>
           LET x == last'.a
               kids == SeqRange(nodes[x].childrenIds)
               p == nodes[x].parentId
           IN  /\ \A c \in kids : /\ c \in DOMAIN nodes'
                                  /\ nodes'[c].parentId = None
                                  /\ c \in rootIds'
               /\ DOMAIN nodes' = DOMAIN nodes \ {x}
               /\ x \notin rootIds'
               /\ rootIds' = (rootIds \cup kids) \ {x}
               /\ p # None =>
                      Count(nodes'[p].childrenIds, x) = 0
               /\ \A n \in DOMAIN nodes' :
                      /\ nodes'[n].index = nodes[n].index
                      /\ n \notin kids => nodes'[n].parentId = nodes[n].parentId
                      /\ nodes'[n].childrenIds =
                             IF n = p THEN Without(nodes[n].childrenIds, x)
                             ELSE nodes[n].childrenIds]_vars

\* unregisterEntity(x) has just removed a node that had a parent and a child:
\* the child is now a root and the parent has no child left.
C12_Witness ==
    /\ last.op = "unregisterEntity" /\ last.a \notin DOMAIN nodes
    /\ last.b # None /\ Len(last.ret) = 1
    /\ last.b \in DOMAIN nodes /\ nodes[last.b].childrenIds = << >>
    /\ last.ret[1] \in rootIds /\ nodes[last.ret[1]].parentId = None

\* C13: attach(child, p) with a store bound, child registered and p a
\* non-none id that is not a registered node returns and leaves child a root:
\* its parentId is none, it is in rootIds and in no node's childrenIds.
C13_AttachToUnknownParentMakesRoot ==
    [][(/\ last'.op = "attach" /\ ecs
        /\ last'.a \in DOMAIN nodes
        /\ last'.b # None /\ last'.b \notin DOMAIN nodes) =>
           /\ ~hung'
           /\ DOMAIN nodes' = DOMAIN nodes
           /\ nodes'[last'.a].parentId = None
           /\ last'.a \in rootIds'
           /\ \A n \in DOMAIN nodes' :
                  Count(nodes'[n].childrenIds, last'.a) = 0]_vars

\* attach(child, p) has just run with a store bound on a child that has a
\* child of its own, with p unregistered but known to the store: the child is
\* a root and has been marked dirty.
C13_Witness ==
    /\ last.op = "attach" /\ ecs /\ ~hung
    /\ last.a \in DOMAIN nodes
    /\ last.b # None /\ last.b \notin DOMAIN nodes /\ last.b \in DOMAIN idToIndex
    /\ last.a \in rootIds /\ nodes[last.a].parentId = None
    /\ nodes[last.a].childrenIds # << >>
    /\ nodes[last.a].index # NoIndex
    /\ store.transformDirty[nodes[last.a].index] = 1

\* The world matrix attach snapshots for child c at the start of the call:
\* getWorldMatrix(c), or the identity when that is none.
Snapshot(c) ==
    LET g == GetWorldMatrix(nodes, store, c).ret
    IN  IF g = Null THEN Identity ELSE g[1]

\* C14: whenever the child is a root after attach(child, parent) (parent is
\* none or is not a registered node), the local transform written to the
\* store for the child equals the child's world matrix snapshotted at the
\* start of the call, even if the store knows the unregistered parent id.
C14_RootAttachWritesSnapshot ==
    [][(/\ last'.op = "attach" /\ ecs /\ ~hung'
        /\ last'.a \in DOMAIN nodes
        /\ nodes[last'.a].index # NoIndex
        /\ (last'.b = None \/ last'.b \notin DOMAIN nodes)) =>
           LocalMatrix(store', nodes[last'.a].index) = Snapshot(last'.a)]_vars

\* The world matrix entity e should have: its parent's world matrix composed
\* with its own local transform, or its local transform alone for a root.
ExpectedWorld(e) ==
    LET local == LocalMatrix(store, nodes[e].index)
        p == nodes[e].parentId
    IN  IF p = None THEN local
        ELSE Multiply(store.worldMatrix[nodes[p].index], local)

\* C15: after any sequence of registerEntity, unregisterEntity, attach and
\* setDirty calls followed by one update(), every entity reachable from a root
\* (here: along nodes that all have a cached index) has a world matrix equal
\* to its parent's world matrix composed with its own local transform, its
\* local transform alone for a root, also a child promoted by unregisterEntity.
C15_ConsistentAfterUpdate ==
    (last.op = "update" /\ ecs /\ ~hung) =>
        \A e \in RootReach \cap DOMAIN nodes :
            ValidPath(e) => store.worldMatrix[nodes[e].index] = ExpectedWorld(e)

\* The position of x in seq, 0 when absent.
PosIn(seq, x) ==
    IF \E k \in 1..Len(seq) : seq[k] = x
        THEN CHOOSE k \in 1..Len(seq) : seq[k] = x
        ELSE 0

\* What one update() call does with the entities it processes: each at most
\* once, none before its parent, recomputed at most once and with the parent's
\* resolved world matrix, the children of one node in insertion order.
OrderlyPass(r) ==
    /\ \A e \in SeqRange(r.visited) : Count(r.visited, e) = 1
    /\ \A e \in SeqRange(r.visited) :
           nodes[e].parentId # None =>
               /\ PosIn(r.visited, nodes[e].parentId) > 0
               /\ PosIn(r.visited, nodes[e].parentId) < PosIn(r.visited, e)
    /\ SeqRange(r.recomputed) \subseteq SeqRange(r.visited)
    /\ \A e \in SeqRange(r.recomputed) :
           /\ Count(r.recomputed, e) = 1
           /\ r.store.worldMatrix[nodes[e].index] =
                  LET local == LocalMatrix(r.store, nodes[e].index)
                      p == nodes[e].parentId
                  IN  IF p = None THEN local
                      ELSE Multiply(r.store.worldMatrix[nodes[p].index], local)
    /\ \A p \in DOMAIN nodes :
           \A i, j \in 1..Len(nodes[p].childrenIds) :
               LET ci == nodes[p].childrenIds[i]
                   cj == nodes[p].childrenIds[j]
               IN  (i < j /\ PosIn(r.visited, ci) > 0 /\ PosIn(r.visited, cj) > 0)
                       => PosIn(r.visited, ci) < PosIn(r.visited, cj)

\* C16 as stated: within one update() call every entity reachable from a root
\* (that has a cached index) is processed exactly once, never before its
\* parent, recomputed at most once with the parent's resolved world matrix,
\* and the children of one node are processed in insertion order.
C16_UpdateProcessesAllReachable ==
    [][(last'.op = "update" /\ ecs /\ ~hung') =>
           LET r == Update(nodes, rootIds, store)
           IN  /\ OrderlyPass(r)
               /\ SeqRange(r.visited) =
                      {e \in RootReach \cap DOMAIN nodes :
                           nodes[e].index # NoIndex}]_vars

\* C16 amended: within one update() call every entity reachable from a root
\* along nodes that all have a cached index is processed exactly once, and no
\* other entity is processed; none before its parent, each recomputed at most
\* once with the parent's resolved world matrix, and the children of one node
\* in insertion order.
C16_UpdateProcessesValidPaths ==
    [][(last'.op = "update" /\ ecs /\ ~hung') =>
           LET r == Update(nodes, rootIds, store)
           IN  /\ OrderlyPass(r)
               /\ SeqRange(r.visited) =
                      {e \in RootReach \cap DOMAIN nodes : ValidPath(e)}]_vars

\* update() has just processed root 1, then its children in the order they
\* were attached, 3 before 2, and cleared their flags.
C16_Witness ==
    /\ last.op = "update" /\ ecs /\ ~hung
    /\ last.ret = <<1, 3, 2>>
    /\ rootIds = {1} /\ nodes[1].childrenIds = <<3, 2>>
    /\ \A e \in DOMAIN nodes : store.transformDirty[nodes[e].index] = 0

\* The topology part of attach's frame, for child c and parent argument p:
\* the registered set and every cached index are unchanged, parentId changes
\* only for c, childrenIds only for c's old parent and for p.
AttachTopologyFrame(c, p) ==
    /\ DOMAIN nodes' = DOMAIN nodes
    /\ \A n \in DOMAIN nodes :
           /\ nodes'[n].index = nodes[n].index
           /\ n # c => nodes'[n].parentId = nodes[n].parentId
           /\ n \notin {nodes[c].parentId, p} =>
                  nodes'[n].childrenIds = nodes[n].childrenIds

\* The slots of the entities in S (the store's own slot for an id that is
\* not registered).
SlotsOf(S) == {LookupIdx(nodes, e) : e \in S} \ {NoIndex}

\* The child's own slot: its cached index, or the slot the bound store's
\* identity map gives its id when the cached index is -1.
OwnSlots(c) ==
    SlotsOf({c}) \cup (IF c \in DOMAIN idToIndex THEN {idToIndex[c]} ELSE {})

\* C17 as stated: attach(child, parent) leaves the set of registered nodes
\* unchanged, changes parentId only for child and childrenIds only for the
\* old and the new parent, and writes entity-store arrays (position, scale,
\* dirty flag, world-matrix slot) only at the child's own index.
C17_AttachWritesChildOnly ==
    [][(last'.op = "attach" /\ ecs /\ ~hung' /\ last'.a \in DOMAIN nodes) =>
           /\ AttachTopologyFrame(last'.a, last'.b)
           /\ \A i \in Slots \ OwnSlots(last'.a) :
                  /\ store'.posX[i] = store.posX[i]
                  /\ store'.scaleX[i] = store.scaleX[i]
                  /\ store'.transformDirty[i] = store.transformDirty[i]
                  /\ store'.worldMatrix[i] = store.worldMatrix[i]]_vars

\* C17 amended: attach(child, parent) leaves the set of registered nodes
\* unchanged, changes parentId only for child and childrenIds only for the
\* old and the new parent, and writes position and scale only at the child's
\* own index; it changes world-matrix slots only of the child, the parent
\* argument and their ancestors, clears dirty flags only there, and sets the
\* dirty flag of the child and of each of its descendants.
C17_AttachFrame ==
    [][(last'.op = "attach" /\ ecs /\ ~hung' /\ last'.a \in DOMAIN nodes) =>
           LET c == last'.a
               chains == SlotsOf({c} \cup Ancestors(c)
                                 \cup ({last'.b} \ {None})
                                 \cup Ancestors(last'.b))
               subtree == OwnSlots(c) \cup SlotsOf(Descendants(c))
           IN  /\ AttachTopologyFrame(c, last'.b)
               /\ \A i \in Slots \ SlotsOf({c}) :
                      /\ store'.posX[i] = store.posX[i]
                      /\ store'.scaleX[i] = store.scaleX[i]
               /\ \A i \in Slots \ chains :
                      store'.worldMatrix[i] = store.worldMatrix[i]
               /\ \A i \in subtree : store'.transformDirty[i] = 1
               /\ \A i \in Slots \ subtree :
                      /\ store'.transformDirty[i] <= store.transformDirty[i]
                      /\ i \notin chains =>
                             store'.transformDirty[i] = store.transformDirty[i]]_vars

\* attach(c, p) has just put c, which has a child d, under p, all three with
\* a cached index: c and d are dirty, p is clean.
C17_Witness ==
    /\ last.op = "attach" /\ ecs /\ ~hung
    /\ last.a \in DOMAIN nodes /\ last.b \in DOMAIN nodes
    /\ nodes[last.a].parentId = last.b
    /\ \E d \in DOMAIN nodes :
           /\ nodes[d].parentId = last.a
           /\ nodes[d].index # NoIndex
           /\ store.transformDirty[nodes[d].index] = 1
    /\ nodes[last.a].index # NoIndex /\ nodes[last.b].index # NoIndex
    /\ store.transformDirty[nodes[last.a].index] = 1
    /\ store.transformDirty[nodes[last.b].index] = 0

\* The registered nodes whose cached index is -1.
Unindexed == {n \in DOMAIN nodes : nodes[n].index = NoIndex}

\* What getWorldMatrix, update and attach do for a registered node with cached
\* index -1, with a store bound, whether or not the store's identity map has
\* an entry for it: getWorldMatrix on it returns none and writes nothing,
\* update leaves its slot as it is, attach on it writes no local transform.
UnindexedSkippedByMatrixOps ==
    /\ (last'.op = "getWorldMatrix" /\ last'.a \in Unindexed) =>
           (last'.ret = Null /\ store' = store)
    /\ last'.op = "update" =>
           \A n \in Unindexed \cap DOMAIN idToIndex :
               /\ store'.worldMatrix[idToIndex[n]] = store.worldMatrix[idToIndex[n]]
               /\ store'.transformDirty[idToIndex[n]]
                      = store.transformDirty[idToIndex[n]]
               /\ n \notin SeqRange(last'.ret)
    /\ (last'.op = "attach" /\ last'.a \in Unindexed \cap DOMAIN idToIndex) =>
           /\ store'.posX[idToIndex[last'.a]] = store.posX[idToIndex[last'.a]]
           /\ store'.scaleX[idToIndex[last'.a]] = store.scaleX[idToIndex[last'.a]]

\* C18 as stated: a registered node whose cached index is -1 is skipped by
\* all matrix and dirty operations, even when the bound store's identity map
\* has gained an entry for its id: setDirty on it sets no dirty flag for it,
\* getWorldMatrix on it returns none, update recomputes nothing for it and
\* attach writes no local transform for it.
C18_UnindexedSkippedByAll ==
    [][(ecs /\ ~hung') =>
           /\ UnindexedSkippedByMatrixOps
           /\ (last'.op = "setDirty" /\ last'.a \in Unindexed
                   /\ last'.a \in DOMAIN idToIndex) =>
                  store'.transformDirty[idToIndex[last'.a]]
                      = store.transformDirty[idToIndex[last'.a]]]_vars

\* C18 amended: for a registered node whose cached index is -1, also when the
\* bound store's identity map has gained an entry for its id, getWorldMatrix
\* on it returns none, update recomputes nothing for it and attach writes no
\* local transform for it; setDirty on it sets the dirty flag at the slot the
\* identity map gives its id, and no flag of its own only when the map has no
\* entry for it.
C18_UnindexedSkippedExceptSetDirty ==
    [][(ecs /\ ~hung') =>
           /\ UnindexedSkippedByMatrixOps
           /\ (last'.op = "setDirty" /\ last'.a \in Unindexed) =>
                  IF last'.a \in DOMAIN idToIndex
                      THEN store'.transformDirty[idToIndex[last'.a]] = 1
                      ELSE \A i \in Slots \ SlotsOf(Descendants(last'.a)) :
                               store'.transformDirty[i] = store.transformDirty[i]]_vars

\* setDirty has just run on a registered node whose cached index is -1 while
\* the bound store's identity map has an entry for it: that slot is dirty.
C18_Witness ==
    /\ last.op = "setDirty" /\ ecs /\ ~hung
    /\ last.a \in DOMAIN nodes /\ nodes[last.a].index = NoIndex
    /\ last.a \in DOMAIN idToIndex
    /\ store.transformDirty[idToIndex[last.a]] = 1

\* The contiguous valid-index chain of n: n and its ancestors up to, and not
\* including, the first one without a cached index.
RECURSIVE ChainUp(_, _)
ChainUp(n, k) ==
    IF n \notin DOMAIN nodes \/ nodes[n].index = NoIndex THEN {}
    ELSE {n} \cup (IF k = 0 \/ nodes[n].parentId = None THEN {}
                   ELSE ChainUp(nodes[n].parentId, k - 1))

\* C19: getWorldMatrix(id) on a registered entity with a valid index resolves
\* only its ancestor chain: afterwards the dirty flag of id and of every
\* ancestor on its contiguous valid-index chain is 0, each chain member that
\* was dirty holds its parent's resolved world matrix composed with its local
\* transform (its local transform alone at the top of the chain), the value
\* returned is id's slot, and no dirty flag or world-matrix slot of an entity
\* outside the chain has changed.
C19_QueryResolvesOnlyChain ==
    [][(/\ last'.op = "getWorldMatrix" /\ ecs /\ ~hung'
        /\ last'.a \in DOMAIN nodes
        /\ nodes[last'.a].index # NoIndex) =>
           LET chain == ChainUp(last'.a, Cardinality(DOMAIN nodes))
           IN  /\ \A e \in chain :
                      /\ store'.transformDirty[nodes[e].index] = 0
                      /\ store'.worldMatrix[nodes[e].index] =
                             IF store.transformDirty[nodes[e].index] = 1
                                 THEN LET local == LocalMatrix(store, nodes[e].index)
                                          p == nodes[e].parentId
                                      IN  IF p \in chain
                                              THEN Multiply(
                                                  store'.worldMatrix[nodes[p].index],
                                                  local)
                                              ELSE local
                                 ELSE store.worldMatrix[nodes[e].index]
               /\ last'.ret = Some(store'.worldMatrix[nodes[last'.a].index])
               /\ \A i \in Slots \ SlotsOf(chain) :
                      /\ store'.transformDirty[i] = store.transformDirty[i]
                      /\ store'.worldMatrix[i] = store.worldMatrix[i]
               /\ store'.posX = store.posX /\ store'.scaleX = store.scaleX]_vars

\* getWorldMatrix(2) has just returned world position 1 for entity 2, whose
\* local position is 0, under its parent 1 at position 1; both flags are
\* clear.
C19_Witness ==
    /\ last.op = "getWorldMatrix" /\ last.a = 2 /\ ecs /\ ~hung
    /\ 1 \in DOMAIN nodes /\ 2 \in DOMAIN nodes
    /\ nodes[2].parentId = 1 /\ nodes[1].parentId = None
    /\ nodes[1].index # NoIndex /\ nodes[2].index # NoIndex
    /\ store.posX[nodes[1].index] = 1 /\ store.posX[nodes[2].index] = 0
    /\ last.ret = Some([m |-> 1, t |-> 1])
    /\ store.transformDirty[nodes[1].index] = 0
    /\ store.transformDirty[nodes[2].index] = 0

\* C20: every id listed in a node p's childrenIds is a registered node whose
\* parentId is p, is listed there once, and is listed under no other node.
C20_ChildEntriesAreLive ==
    \A p \in DOMAIN nodes :
        \A k \in 1..Len(nodes[p].childrenIds) :
            LET c == nodes[p].childrenIds[k]
            IN  /\ c \in DOMAIN nodes
                /\ nodes[c].parentId = p
                /\ Count(nodes[p].childrenIds, c) = 1
                /\ \A q \in DOMAIN nodes \ {p} :
                       Count(nodes[q].childrenIds, c) = 0

\* unregisterEntity has just removed the top of a chain x -> c -> d: c is a
\* root and still lists d, whose parent it is.
C20_Witness ==
    /\ last.op = "unregisterEntity" /\ last.a \notin DOMAIN nodes
    /\ Len(last.ret) = 1
    /\ last.ret[1] \in rootIds
    /\ Len(nodes[last.ret[1]].childrenIds) = 1
    /\ nodes[nodes[last.ret[1]].childrenIds[1]].parentId = last.ret[1]

=============================================================================
